---- MODULE Spec2Model ----
(***************************************************************************)
(* A model of spotify_data_collector.py: the helpers chunk, timestamp and  *)
(* dump_json, the SpotifyCollector extraction methods, and main.  The      *)
(* Spotify Web API (spotipy) is the environment: every call either raises  *)
(* or returns a response chosen from a bounded set.                        *)
(*                                                                         *)
(* Python values are encoded as strings; a dict is a record that holds     *)
(* every key the code reads, Absent standing for a key the dict lacks.     *)
(* An object that may be null carries the flag isNone.  Only the fields    *)
(* the control flow depends on are kept in the normalised records.         *)
(***************************************************************************)
EXTENDS Integers, Sequences, FiniteSets, TLC

\* ------------------------------------------------------------ bounds
MaxPages == 2       \* pages one paginated endpoint serves
MaxRows == 2        \* rows one endpoint serves over all its pages
MaxClock == 1       \* seconds the wall clock may advance during a run
MaxIds == 285       \* length of the ID list given to the audio-features method
MaxLen == 4         \* length of the list given to chunk
MaxSize == 3        \* batch size given to chunk

\* ------------------------------------------------------------ constants
AUDIO_FEATURES_BATCH == 100
PLAYLIST_ITEMS_BATCH == 100
SAVED_TRACKS_BATCH == 50
PLAYLISTS_BATCH == 50
DATA_DIR == "spotify_data"
ENV_VARS == <<"SPOTIPY_CLIENT_ID", "SPOTIPY_CLIENT_SECRET", "SPOTIPY_REDIRECT_URI">>

\* ------------------------------------------------------------ Python values
None == "<None>"
Absent == "<absent>"
JTrue == "true"
JFalse == "false"

\* bool(v) of a string-encoded value
Truthy(v) == v \notin {None, Absent, "", JFalse}
\* d.get(key)
Get(v) == IF v = Absent THEN None ELSE v
\* d.get(key, default)
GetDefault(v, d) == IF v = Absent THEN d ELSE v
\* f"{v}"
Str(v) == IF v = None THEN "None" ELSE v

Min(a, b) == IF a <= b THEN a ELSE b
Last(s) == s[Len(s)]
Range(s) == {s[i] : i \in 1..Len(s)}
Seqs(S, n) == UNION {[1..k -> S] : k \in 0..n}
IsPrefix(s, t) == Len(s) <= Len(t) /\ SubSeq(t, 1, Len(s)) = s
RECURSIVE Flatten(_)
Flatten(ss) == IF ss = <<>> THEN <<>> ELSE Head(ss) \o Flatten(Tail(ss))

\* ------------------------------------------------------------ chunk
\* seq[i:j] with 0-based i and the end clamped to len(seq)
Slice_short(seq, i, j) == SubSeq(seq, i + 1, Min(j - 1, Len(seq)))
Slice(seq, i, j) == SubSeq(seq, i + 1, Min(j, Len(seq)))

RECURSIVE ChunkFrom(_, _, _)
ChunkFrom(seq, size, i) ==
    IF i >= Len(seq) THEN <<>>
    ELSE <<Slice(seq, i, i + size)>> \o ChunkFrom(seq, size, i + size)

\* list(chunk(seq, size)) for size >= 1
chunk(seq, size) == ChunkFrom(seq, size, 0)

VARIABLES
    env,            \* os.environ restricted to ENV_VARS
    pc,             \* position of the running code
    err,            \* the exception raised, NoErr when none
    now,            \* wall clock, in seconds
    files,          \* names of the files under DATA_DIR
    log,            \* records emitted through log.*
    trace,          \* history: calls and returns of extraction methods, file writes
    calls,          \* history: API requests of the method in progress, dropped when it returns
    saved_tracks,   \* main's saved_tracks
    playlists,      \* main's playlists
    track_ids,      \* collect_audio_features_for_tracks' track_ids
    ret,            \* value returned by the last extraction method
    page,           \* the paginators' page
    items,          \* the paginators' items
    pl_id,          \* collect_first_playlist_tracks' pl_id
    groups,         \* batches the audio-features loop has still to send
    all_feats,      \* collect_audio_features_for_tracks' all_feats
    cseq, csize, cout   \* chunk called on its own: arguments and result

chunkVars == <<cseq, csize, cout>>
sysVars == <<env, err, now, files, log>>
histVars == <<trace, calls>>
mainVars == <<saved_tracks, playlists, track_ids, ret>>
localVars == <<page, items, pl_id, groups, all_feats>>
vars == <<pc, sysVars, histVars, mainVars, localVars, chunkVars>>

NoErr == [type |-> "", arg |-> ""]
NoPage == [items |-> <<>>, next |-> None]
NoRet == [isNone |-> TRUE, rows |-> <<>>]
Returned(rows) == [isNone |-> FALSE, rows |-> rows]

\* ------------------------------------------------------------ chunk on its own
Letters == {"a", "b"}

InitChunk ==
    /\ pc = "chunk"
    /\ cseq \in Seqs(Letters, MaxLen)
    /\ csize \in 1..MaxSize
    /\ cout = <<>>
    /\ env = [v \in Range(ENV_VARS) |-> "x"]
    /\ err = NoErr /\ now = 0 /\ files = {} /\ log = <<>>
    /\ trace = <<>> /\ calls = <<>>
    /\ saved_tracks = <<>> /\ playlists = <<>> /\ track_ids = <<>> /\ ret = NoRet
    /\ page = NoPage /\ items = <<>> /\ pl_id = None /\ groups = <<>> /\ all_feats = <<>>

ChunkApply ==
    /\ pc = "chunk"
    /\ cout' = chunk(cseq, csize)
    /\ pc' = "chunk_done"
    /\ UNCHANGED <<cseq, csize, sysVars, histVars, mainVars, localVars>>

NextChunk == ChunkApply

SpecChunk == InitChunk /\ [][NextChunk]_vars

\* C1: for every list and every batch size >= 1, the chunks chunk yields
\* concatenate to the list, each holds at most size elements, and there are
\* exactly ceil(len/size) of them (none for the empty list).
C1_ChunkPartition ==
    pc = "chunk_done" =>
        /\ Flatten(cout) = cseq
        /\ \A k \in 1..Len(cout) : Len(cout[k]) <= csize
        /\ Len(cout) = (Len(cseq) + csize - 1) \div csize
        /\ (cseq = <<>> => cout = <<>>)

C1_Witness ==
    /\ pc = "chunk_done"
    /\ Len(cseq) = 4 /\ csize = 3
    /\ cout = <<SubSeq(cseq, 1, 3), SubSeq(cseq, 4, 4)>>

\* ------------------------------------------------------------ the API's data
Track(id, is_local) == [isNone |-> FALSE, id |-> id, name |-> "n", is_local |-> is_local]
NullTrack == [isNone |-> TRUE, id |-> Absent, name |-> Absent, is_local |-> Absent]
EmptyTrack == [isNone |-> FALSE, id |-> Absent, name |-> Absent, is_local |-> Absent]
\* x or {}
TrackOrEmpty(t) == IF t.isNone THEN EmptyTrack ELSE t

Row(at, track) == [isNone |-> FALSE, at |-> at, track |-> track]
NullRow == [isNone |-> TRUE, at |-> Absent, track |-> NullTrack]
EmptyRow == [isNone |-> FALSE, at |-> Absent, track |-> NullTrack]
\* x or {}
RowOrEmpty(r) == IF r.isNone THEN EmptyRow ELSE r

\* rows of GET /me/tracks: a removed track, a track without an ID, a local
\* file carrying an ID, a catalogue track
SavedRows ==
    { Row("d", NullTrack), Row("d", Track(None, JFalse)),
      Row("d", Track("t3", JTrue)), Row("d", Track("t1", Absent)) }
\* rows of GET /me/playlists
PlaylistRows == { [id |-> i, name |-> "n"] : i \in {"p1", "saved", Absent} }
\* rows of GET /playlists/{id}/tracks
PlaylistItemRows == { NullRow, Row("d", Track("t1", JFalse)) }
\* rows of GET /me/player/recently-played
RecentRows == { NullRow, Row("d", NullTrack), Row("d", Track("t1", JFalse)) }

\* A page of a paginated endpoint.  The cursor is null or empty on the last
\* page; the endpoint serves at most MaxPages pages and MaxRows rows.
Pages(rows, fetched, held) ==
    { [items |-> it, next |-> nx] :
        it \in Seqs(rows, MaxRows - held),
        nx \in IF fetched + 1 < MaxPages THEN {None, "", "url"} ELSE {None, ""} }

\* GET /audio-features: one entry per requested ID, null for an ID the
\* catalogue does not resolve; spotipy may hand back None for the whole call.
Feat(id) == [isNone |-> FALSE, id |-> id]
NullFeat == [isNone |-> TRUE, id |-> Absent]
UnresolvedChoices == { {}, {"t1"} }
FeatureResponses(group) ==
    { [isNone |-> TRUE, feats |-> <<>>] } \cup
    { [isNone |-> FALSE,
       feats |-> [i \in 1..Len(group) |-> IF group[i] \in U THEN NullFeat ELSE Feat(group[i])]] :
        U \in UnresolvedChoices }

RecentPayloads ==
    { [isNone |-> TRUE, items |-> <<>>] } \cup
    { [isNone |-> FALSE, items |-> it] : it \in Seqs(RecentRows, MaxRows) }

Request(op, req, resp) == [op |-> op, req |-> req, raised |-> FALSE, resp |-> resp]
Failed(op, req) == [op |-> op, req |-> req, raised |-> TRUE, resp |-> NoPage]

\* ------------------------------------------------------------ timestamp, dump_json
TwoDigits(n) == ToString(n \div 10) \o ToString(n % 10)
\* datetime.now().strftime("%Y%m%d_%H%M%S"), t seconds into the run
timestamp(t) == "20240101_0000" \o TwoDigits(t)
\* DATA_DIR / f"{prefix}_{timestamp()}.json"
FileName(prefix, t) == DATA_DIR \o "/" \o prefix \o "_" \o timestamp(t) \o ".json"

Info(msg, arg) == [level |-> "INFO", msg |-> msg, arg |-> arg]
Warning(msg) == [level |-> "WARNING", msg |-> msg, arg |-> ""]
Error(msg, arg) == [level |-> "ERROR", msg |-> msg, arg |-> arg]

Ev(ev, what) == [ev |-> ev, what |-> what]

\* dump_json(payload, prefix) at second t, called by the method `step` with
\* lg already logged and tr already recorded: the file is created or
\* truncated, the path is logged, the method logs its count and returns.
\* The payload itself is not kept.
dump_json(prefix, t, lg, tr, countMsg, step) ==
    /\ now' = t
    /\ files' = files \cup {FileName(prefix, t)}
    /\ log' = lg \o <<Info("Saved -> %s", FileName(prefix, t)), Info(countMsg, "")>>
    /\ trace' = tr \o <<Ev("write", FileName(prefix, t)), Ev("return", step)>>

\* ------------------------------------------------------------ main's order
\* The statements of main after the collector is constructed, in order.
MainOrder_swapped == <<"saved", "playlists", "audio_ids", "plitems", "recent", "complete">>
MainOrder == <<"saved", "playlists", "plitems", "audio_ids", "recent", "complete">>
After(p) == MainOrder[(CHOOSE i \in 1..Len(MainOrder) : MainOrder[i] = p) + 1]

\* An exception leaves the running function and, uncaught, main.
Raise_swallowed(e, resume) ==
    /\ pc' = resume
    /\ err' = e
Raise(e, resume) ==
    /\ pc' = "raised"
    /\ err' = e

ApiError(op) == [type |-> "ApiError", arg |-> op]

\* ------------------------------------------------------------ main: validation
Missing_unset_only(v) == env[v] = None
\* not os.getenv(var)
Missing(v) == ~Truthy(env[v])

Init ==
    /\ pc = "main"
    /\ env \in [Range(ENV_VARS) -> {None, "", "x"}]
    /\ err = NoErr /\ now = 0 /\ files = {} /\ log = <<>>
    /\ trace = <<>> /\ calls = <<>>
    /\ saved_tracks = <<>> /\ playlists = <<>> /\ track_ids = <<>> /\ ret = NoRet
    /\ page = NoPage /\ items = <<>> /\ pl_id = None /\ groups = <<>> /\ all_feats = <<>>
    /\ cseq = <<>> /\ csize = 1 /\ cout = <<>>

\* main, lines 241-246: the first missing variable raises RuntimeError
Validate ==
    /\ pc = "main"
    /\ IF \E i \in 1..Len(ENV_VARS) : Missing(ENV_VARS[i])
       THEN LET i == CHOOSE i \in 1..Len(ENV_VARS) :
                        /\ Missing(ENV_VARS[i])
                        /\ \A j \in 1..(i - 1) : ~Missing(ENV_VARS[j])
            IN /\ pc' = "raised"
               /\ err' = [type |-> "RuntimeError", arg |-> ENV_VARS[i]]
       ELSE /\ pc' = "construct"
            /\ err' = err
    /\ UNCHANGED <<env, now, files, log, histVars, mainVars, localVars, chunkVars>>

\* ------------------------------------------------------------ main: construction
\* where main goes when SpotifyCollector(...) raises: log.error, return
AfterAuthFailure_fallthrough == "saved"
AfterAuthFailure == "auth_failed"

\* main, lines 248-252, and SpotifyCollector.__init__: the OAuth set-up or
\* the current_user call may raise; main catches either
Construct ==
    /\ pc = "construct"
    /\ \/ /\ calls' = calls
          /\ err' = [type |-> "AuthError", arg |-> "SpotifyOAuth"]
          /\ log' = Append(log, Error("Authentication failed: %s", "SpotifyOAuth"))
          /\ pc' = AfterAuthFailure
       \/ /\ calls' = Append(calls, Failed("current_user", <<>>))
          /\ err' = [type |-> "AuthError", arg |-> "current_user"]
          /\ log' = Append(log, Error("Authentication failed: %s", "current_user"))
          /\ pc' = AfterAuthFailure
       \/ /\ calls' = Append(calls, Request("current_user", <<>>, NoPage))
          /\ err' = err
          /\ log' = Append(log, Info("Authenticated as %s (%s)", ""))
          /\ pc' = Head(MainOrder)
    /\ UNCHANGED <<env, now, files, trace, mainVars, localVars, chunkVars>>

\* ------------------------------------------------------------ paginator
\* _gather_items, lines 80-81 (and lines 156-157): the first page
FirstPage(op, req, rows, inside, resume) ==
    \/ \E pg \in Pages(rows, 0, 0) :
          /\ calls' = <<Request(op, req, pg)>>
          /\ page' = pg
          /\ items' = pg.items
          /\ pc' = inside
          /\ err' = err
    \/ /\ calls' = <<Failed(op, req)>>
       /\ Raise(ApiError(op), resume)
       /\ UNCHANGED <<page, items>>

\* items.extend(page.get("items", []))
Extend_replace(its, pg) == pg.items
Extend(its, pg) == its \o pg.items

\* while page.get("next")
HasNext(pg) == Truthy(pg.next)

\* _gather_items, lines 82-84 (and lines 158-160): one more page
NextPage(rows, resume) ==
    /\ HasNext(page)
    /\ \/ \E pg \in Pages(rows, Len(calls), Len(items)) :
             /\ calls' = Append(calls, Request("next", <<page.next>>, pg))
             /\ page' = pg
             /\ items' = Extend(items, pg)
             /\ pc' = pc
             /\ err' = err
       \/ /\ calls' = Append(calls, Failed("next", <<page.next>>))
          /\ Raise(ApiError("next"), resume)
          /\ UNCHANGED <<page, items>>

\* ------------------------------------------------------------ saved tracks
\* lines 94-113
SavedRecord(row) ==
    LET track == TrackOrEmpty(row.track)
    IN [added_at |-> Get(row.at), track_id |-> Get(track.id),
        track_name |-> Get(track.name), is_local |-> GetDefault(track.is_local, JFalse)]
SavedProcessed(raw) ==
    LET kept == SelectSeq(raw, LAMBDA row : TrackOrEmpty(row.track) # EmptyTrack)
    IN [i \in 1..Len(kept) |-> SavedRecord(kept[i])]

\* collect_saved_tracks, lines 89-92
CollectSavedCall ==
    /\ pc = "saved"
    /\ FirstPage("current_user_saved_tracks", <<SAVED_TRACKS_BATCH>>, SavedRows,
                 "saved_gather", After("saved"))
    /\ log' = Append(log, Info("Fetching saved tracks ...", ""))
    /\ trace' = Append(trace, Ev("call", "saved_tracks"))
    /\ ret' = NoRet
    /\ UNCHANGED <<env, now, files, saved_tracks, playlists, track_ids,
                   pl_id, groups, all_feats, chunkVars>>

\* _gather_items as called by collect_saved_tracks and collect_playlists
GatherNext ==
    /\ pc \in {"saved_gather", "playlists_gather"}
    /\ IF pc = "saved_gather"
       THEN NextPage(SavedRows, After("saved"))
       ELSE NextPage(PlaylistRows, After("playlists"))
    /\ UNCHANGED <<env, now, files, log, trace, mainVars, pl_id, groups, all_feats, chunkVars>>

\* collect_saved_tracks, lines 93-116, and main, line 255
CollectSavedFinish ==
    /\ pc = "saved_gather"
    /\ ~HasNext(page)
    /\ \E t \in now..MaxClock :
          dump_json("saved_tracks", t, log, trace, "Saved tracks count: %d", "saved_tracks")
    /\ ret' = Returned(SavedProcessed(items))
    /\ saved_tracks' = SavedProcessed(items)
    /\ page' = NoPage /\ items' = <<>>
    /\ calls' = <<>>
    /\ pc' = After("saved")
    /\ UNCHANGED <<env, err, playlists, track_ids, pl_id, groups, all_feats, chunkVars>>

\* ------------------------------------------------------------ playlists
\* lines 123-137
PlaylistRecord(pl) == [playlist_id |-> Get(pl.id), playlist_name |-> Get(pl.name)]
PlaylistsProcessed(raw) == [i \in 1..Len(raw) |-> PlaylistRecord(raw[i])]

\* collect_playlists, lines 120-121
CollectPlaylistsCall ==
    /\ pc = "playlists"
    /\ FirstPage("current_user_playlists", <<PLAYLISTS_BATCH>>, PlaylistRows,
                 "playlists_gather", After("playlists"))
    /\ log' = Append(log, Info("Fetching user playlists ...", ""))
    /\ trace' = Append(trace, Ev("call", "playlists"))
    /\ ret' = NoRet
    /\ UNCHANGED <<env, now, files, saved_tracks, playlists, track_ids,
                   pl_id, groups, all_feats, chunkVars>>

\* collect_playlists, lines 122-140, and main, line 258
CollectPlaylistsFinish ==
    /\ pc = "playlists_gather"
    /\ ~HasNext(page)
    /\ \E t \in now..MaxClock :
          dump_json("user_playlists", t, log, trace, "Playlists count: %d", "playlists")
    /\ ret' = Returned(PlaylistsProcessed(items))
    /\ playlists' = PlaylistsProcessed(items)
    /\ page' = NoPage /\ items' = <<>>
    /\ calls' = <<>>
    /\ pc' = After("playlists")
    /\ UNCHANGED <<env, err, saved_tracks, track_ids, pl_id, groups, all_feats, chunkVars>>

\* ------------------------------------------------------------ first playlist's tracks
\* if not playlists (line 146)
NoPlaylists(pls) == pls = <<>>

\* f"playlist_{pl_id}_tracks" (line 186)
PlaylistTracksPrefix_bare(id) == Str(id) \o "_tracks"
PlaylistTracksPrefix(id) == "playlist_" \o Str(id) \o "_tracks"

\* lines 163-184
PlaylistTrackRecord(id, it) ==
    LET track == TrackOrEmpty(RowOrEmpty(it).track)
    IN [playlist_id |-> id, added_at |-> Get(it.at), track_id |-> Get(track.id),
        track_name |-> Get(track.name), is_local |-> GetDefault(track.is_local, JFalse)]
PlaylistTracksProcessed(id, raw) ==
    LET kept == SelectSeq(raw, LAMBDA it : TrackOrEmpty(RowOrEmpty(it).track) # EmptyTrack)
    IN [i \in 1..Len(kept) |-> PlaylistTrackRecord(id, kept[i])]

\* collect_first_playlist_tracks, lines 146-157, called at main, line 261;
\* main does not read playlists afterwards
FirstPlaylistCall ==
    /\ pc = "plitems"
    /\ IF NoPlaylists(playlists)
       THEN /\ log' = Append(log, Warning("No playlists found; skipping playlist item extraction."))
            /\ trace' = trace \o <<Ev("call", "first_playlist_tracks"),
                                   Ev("return", "first_playlist_tracks")>>
            /\ calls' = <<>>
            /\ ret' = NoRet
            /\ pc' = After("plitems")
            /\ UNCHANGED <<err, page, items, pl_id>>
       ELSE /\ pl_id' = playlists[1].playlist_id
            /\ log' = Append(log, Info("Fetching tracks for playlist: '%s' (%s)", ""))
            /\ trace' = Append(trace, Ev("call", "first_playlist_tracks"))
            /\ ret' = NoRet
            /\ FirstPage("playlist_items", <<playlists[1].playlist_id, PLAYLIST_ITEMS_BATCH>>,
                         PlaylistItemRows, "plitems_gather", After("plitems"))
    /\ playlists' = <<>>
    /\ UNCHANGED <<env, now, files, saved_tracks, track_ids, groups, all_feats, chunkVars>>

\* collect_first_playlist_tracks, lines 158-160
PlaylistItemsNext ==
    /\ pc = "plitems_gather"
    /\ NextPage(PlaylistItemRows, After("plitems"))
    /\ UNCHANGED <<env, now, files, log, trace, mainVars, pl_id, groups, all_feats, chunkVars>>

\* collect_first_playlist_tracks, lines 162-188
FirstPlaylistFinish ==
    /\ pc = "plitems_gather"
    /\ ~HasNext(page)
    /\ \E t \in now..MaxClock :
          dump_json(PlaylistTracksPrefix(pl_id), t, log, trace,
                    "Tracks in first playlist: %d", "first_playlist_tracks")
    /\ ret' = Returned(PlaylistTracksProcessed(pl_id, items))
    /\ page' = NoPage /\ items' = <<>> /\ pl_id' = None
    /\ calls' = <<>>
    /\ pc' = After("plitems")
    /\ UNCHANGED <<env, err, saved_tracks, playlists, track_ids, groups, all_feats, chunkVars>>

\* ------------------------------------------------------------ audio features
\* main, lines 264-266
SavedTrackIds_with_local(saved) ==
    LET kept == SelectSeq(saved, LAMBDA t : Truthy(t.track_id))
    IN [i \in 1..Len(kept) |-> kept[i].track_id]
SavedTrackIds(saved) ==
    LET kept == SelectSeq(saved, LAMBDA t : Truthy(t.track_id) /\ ~Truthy(t.is_local))
    IN [i \in 1..Len(kept) |-> kept[i].track_id]

\* [tid for tid in track_ids if tid] (line 194)
ValidIds(ids) == SelectSeq(ids, Truthy)

\* if not valid_ids (line 195)
NoValidIds_never(valid) == FALSE
NoValidIds(valid) == valid = <<>>

\* self.sp.audio_features(group) or [] (line 202)
FeatsOrEmpty(resp) == IF resp.isNone THEN <<>> ELSE resp.feats

\* [f for f in feats if f] (line 204)
KeepFeats_all(feats) == feats
KeepFeats(feats) == SelectSeq(feats, LAMBDA f : ~f.isNone)

\* main, lines 264-267: the IDs handed to collect_audio_features_for_tracks
MainAudioIds ==
    /\ pc = "audio_ids"
    /\ track_ids' = SavedTrackIds(saved_tracks)
    /\ pc' = "audio"
    /\ UNCHANGED <<sysVars, histVars, saved_tracks, playlists, ret, localVars, chunkVars>>

\* collect_audio_features_for_tracks, lines 194-201
AudioCall ==
    /\ pc = "audio"
    /\ calls' = <<>>
    /\ all_feats' = <<>>
    /\ IF NoValidIds(ValidIds(track_ids))
       THEN /\ log' = Append(log, Warning("No valid track IDs for audio features."))
            /\ trace' = trace \o <<Ev("call", "audio_features"), Ev("return", "audio_features")>>
            /\ ret' = Returned(<<>>)
            /\ groups' = <<>>
            /\ pc' = After("audio_ids")
       ELSE /\ log' = Append(log, Info("Fetching audio features for %d tracks ...", ""))
            /\ trace' = Append(trace, Ev("call", "audio_features"))
            /\ ret' = NoRet
            /\ groups' = chunk(ValidIds(track_ids), AUDIO_FEATURES_BATCH)
            /\ pc' = "audio_loop"
    /\ UNCHANGED <<env, err, now, files, saved_tracks, playlists, track_ids,
                   page, items, pl_id, chunkVars>>

\* collect_audio_features_for_tracks, lines 201-204: one batch
AudioBatch ==
    /\ pc = "audio_loop"
    /\ groups # <<>>
    /\ \/ \E resp \in FeatureResponses(Head(groups)) :
             /\ calls' = Append(calls, Request("audio_features", Head(groups), resp))
             /\ all_feats' = all_feats \o KeepFeats(FeatsOrEmpty(resp))
             /\ groups' = Tail(groups)
             /\ pc' = pc
             /\ err' = err
       \/ /\ calls' = Append(calls, Failed("audio_features", Head(groups)))
          /\ Raise(ApiError("audio_features"), After("audio_ids"))
          /\ UNCHANGED <<all_feats, groups>>
    /\ UNCHANGED <<env, now, files, log, trace, mainVars, page, items, pl_id, chunkVars>>

\* collect_audio_features_for_tracks, lines 206-208
AudioFinish ==
    /\ pc = "audio_loop"
    /\ groups = <<>>
    /\ \E t \in now..MaxClock :
          dump_json("saved_tracks_audio_features", t, log, trace,
                    "Audio features rows: %d", "audio_features")
    /\ ret' = Returned(all_feats)
    /\ all_feats' = <<>>
    /\ calls' = <<>>
    /\ pc' = After("audio_ids")
    /\ UNCHANGED <<env, err, saved_tracks, playlists, track_ids,
                   page, items, pl_id, groups, chunkVars>>

\* ------------------------------------------------------------ recently played
\* payload.get("items", []) of (payload or {}) (lines 213-214)
PayloadItems(payload) == IF payload.isNone THEN <<>> ELSE payload.items

\* lines 217-229, for a row that is a dict
RecentRecord(row) ==
    LET track == TrackOrEmpty(RowOrEmpty(row).track)
    IN [played_at |-> Get(row.at), track_id |-> Get(track.id), track_name |-> Get(track.name)]
RecentProcessed(raw) == [i \in 1..Len(raw) |-> RecentRecord(raw[i])]

\* collect_recently_played, lines 212-233, called at main, line 270; main
\* reads neither saved_tracks nor the ID list afterwards.  row.get on a
\* null row raises AttributeError (line 220).
RecentCall ==
    /\ pc = "recent"
    /\ \/ /\ calls' = <<Failed("current_user_recently_played", <<50>>)>>
          /\ Raise(ApiError("current_user_recently_played"), After("recent"))
          /\ log' = Append(log, Info("Fetching recently played tracks (last 50) ...", ""))
          /\ trace' = Append(trace, Ev("call", "recently_played"))
          /\ ret' = NoRet
          /\ UNCHANGED <<now, files>>
       \/ \E payload \in RecentPayloads :
             /\ calls' = <<Request("current_user_recently_played", <<50>>, payload)>>
             /\ IF \E i \in 1..Len(PayloadItems(payload)) : PayloadItems(payload)[i].isNone
                THEN /\ Raise([type |-> "AttributeError", arg |-> "get"], After("recent"))
                     /\ log' = Append(log, Info("Fetching recently played tracks (last 50) ...", ""))
                     /\ trace' = Append(trace, Ev("call", "recently_played"))
                     /\ ret' = NoRet
                     /\ UNCHANGED <<now, files>>
                ELSE /\ \E t \in now..MaxClock :
                           dump_json("recently_played", t,
                                     Append(log, Info("Fetching recently played tracks (last 50) ...", "")),
                                     Append(trace, Ev("call", "recently_played")),
                                     "Recently played count: %d", "recently_played")
                     /\ ret' = Returned(RecentProcessed(PayloadItems(payload)))
                     /\ pc' = After("recent")
                     /\ err' = err
    /\ saved_tracks' = <<>>
    /\ track_ids' = <<>>
    /\ UNCHANGED <<env, playlists, localVars, chunkVars>>

\* main, lines 272-273
Complete ==
    /\ pc = "complete"
    /\ log' = log \o <<Info("--- Extraction complete ---", ""),
                       Info("All datasets saved in: %s", DATA_DIR)>>
    /\ trace' = Append(trace, Ev("complete", ""))
    /\ pc' = "done"
    /\ UNCHANGED <<env, err, now, files, calls, mainVars, localVars, chunkVars>>

Next ==
    \/ Validate
    \/ Construct
    \/ CollectSavedCall
    \/ GatherNext
    \/ CollectSavedFinish
    \/ CollectPlaylistsCall
    \/ CollectPlaylistsFinish
    \/ FirstPlaylistCall
    \/ PlaylistItemsNext
    \/ FirstPlaylistFinish
    \/ MainAudioIds
    \/ AudioCall
    \/ AudioBatch
    \/ AudioFinish
    \/ RecentCall
    \/ Complete

Spec == Init /\ [][Next]_vars

\* ------------------------------------------------------------ the audio-features method on its own
\* The ID lists handed to the method: windows of a periodic stream of IDs in
\* which two of seven are null or empty.
IdCycle == <<"t1", "t2", "t3", None, "t4", "t5", "">>
IdWindow(off, n) == [i \in 1..n |-> IdCycle[((off + i - 1) % Len(IdCycle)) + 1]]

InitAudio ==
    /\ pc = "audio"
    /\ \E off \in 0..(Len(IdCycle) - 1), n \in 0..MaxIds : track_ids = IdWindow(off, n)
    /\ env = [v \in Range(ENV_VARS) |-> "x"]
    /\ err = NoErr /\ now = 0 /\ files = {} /\ log = <<>>
    /\ trace = <<>> /\ calls = <<>>
    /\ saved_tracks = <<>> /\ playlists = <<>> /\ ret = NoRet
    /\ page = NoPage /\ items = <<>> /\ pl_id = None /\ groups = <<>> /\ all_feats = <<>>
    /\ cseq = <<>> /\ csize = 1 /\ cout = <<>>

NextAudio ==
    \/ AudioCall
    \/ AudioBatch
    \/ AudioFinish

SpecAudio == InitAudio /\ [][NextAudio]_vars

NonNull(feats) == SelectSeq(feats, LAMBDA f : ~f.isNone)

\* C6: when collect_audio_features_for_tracks returns after its loop, having
\* been given n >= 1 non-empty IDs, it has sent ceil(n/100) audio_features
\* requests of at most 100 IDs each, the requests cover the non-empty IDs
\* once and in input order (150 IDs: 100 then 50), and the value returned is
\* the responses in request order with the null entries removed.
C6_BatchedLookup ==
    [][ (pc = "audio_loop" /\ pc' = After("audio_ids")) =>
          LET valid == SelectSeq(track_ids, LAMBDA id : id \notin {None, ""})
              n == Len(valid)
          IN /\ n >= 1
             /\ Len(calls) = (n + 99) \div 100
             /\ \A i \in 1..Len(calls) :
                   /\ calls[i].op = "audio_features"
                   /\ ~calls[i].raised
                   /\ Len(calls[i].req) <= 100
             /\ Flatten([i \in 1..Len(calls) |-> calls[i].req]) = valid
             /\ (n = 150 => Len(calls[1].req) = 100 /\ Len(calls[2].req) = 50)
             /\ ret' = Returned(Flatten([i \in 1..Len(calls) |->
                                  IF calls[i].resp.isNone THEN <<>>
                                  ELSE NonNull(calls[i].resp.feats)]))
      ]_vars

C6_Witness ==
    /\ pc = After("audio_ids")
    /\ Len(SelectSeq(track_ids, LAMBDA id : id \notin {None, ""})) = 150
    /\ ~ret.isNone
    /\ Len(ret.rows) > 100
    /\ Len(ret.rows) < 150
    /\ Cardinality(files) = 1

\* ------------------------------------------------------------ properties of a run of main
StepNames == <<"saved_tracks", "playlists", "first_playlist_tracks",
               "audio_features", "recently_played">>
ExpectedOrder ==
    Flatten([i \in 1..Len(StepNames) |-> <<Ev("call", StepNames[i]), Ev("return", StepNames[i])>>])
        \o <<Ev("complete", "")>>
CallsReturns(tr) == SelectSeq(tr, LAMBDA e : e.ev \in {"call", "return", "complete"})
Writes(tr) == SelectSeq(tr, LAMBDA e : e.ev = "write")
LastCallAt(tr) == CHOOSE i \in 1..Len(tr) :
                      /\ tr[i].ev = "call"
                      /\ \A j \in (i + 1)..Len(tr) : tr[j].ev # "call"
\* the write events of the invocation begun last
WritesSinceCall(tr) == Writes(SubSeq(tr, LastCallAt(tr), Len(tr)))
Gathering == {"saved_gather", "playlists_gather"}
CursorEmpty(pg) == pg.next \in {None, ""}

\* C2: _gather_items makes one request per page: the endpoint's own request
\* first, then one next request for each page whose cursor is not empty, and
\* none after a page whose cursor is null or empty; a further page's items
\* are appended to those gathered, and when it returns the items gathered
\* are the pages' items concatenated in page order, as many as the pages
\* hold together.
C2_Paginator ==
    [][ (pc \in Gathering) =>
          LET n == Len(calls)
              pageItems == [i \in 1..n |-> calls[i].resp.items]
          IN /\ n >= 1
             /\ calls[1].op \in {"current_user_saved_tracks", "current_user_playlists"}
             /\ \A i \in 2..n : calls[i].op = "next"
             /\ \A i \in 1..n : ~calls[i].raised
             /\ \A i \in 1..(n - 1) : ~CursorEmpty(calls[i].resp)
             /\ page = calls[n].resp
             /\ items = Flatten(pageItems)
             /\ Len(items) = Len(Flatten([i \in 1..n |-> [k \in 1..Len(pageItems[i]) |-> 1]]))
             /\ (pc' = pc =>
                    /\ ~CursorEmpty(page)
                    /\ Len(calls') = n + 1
                    /\ items' = items \o page'.items)
             /\ (pc' = "raised" => ~CursorEmpty(page) /\ calls'[n + 1].raised)
             /\ (pc' \notin {pc, "raised"} =>
                    /\ CursorEmpty(page)
                    /\ Len(ret'.rows) <= Len(items)
                    /\ (pc = "playlists_gather" => Len(ret'.rows) = Len(items)))
      ]_vars

C2_Witness ==
    /\ pc = "saved_gather"
    /\ Len(calls) = 2
    /\ calls[1].resp.next = "url"
    /\ page.next = None
    /\ Len(calls[1].resp.items) = 1
    /\ Len(items) = 2
    /\ items[1] # items[2]

\* C3: the extraction methods are called and return one after another in
\* the order saved tracks, playlists, first playlist's tracks, audio
\* features, recently played, each at most once; a run that ends normally
\* has called and left all five, and the completion message is logged only
\* after recently played has returned.
C3_FixedOrder ==
    /\ IsPrefix(CallsReturns(trace), ExpectedOrder)
    /\ (pc = "done" => CallsReturns(trace) = ExpectedOrder)
    /\ (\E i \in 1..Len(log) : log[i].msg = "--- Extraction complete ---")
          => \E j \in 1..Len(trace) : trace[j] = Ev("return", "recently_played")

C3_Witness ==
    /\ pc = "done"
    /\ Cardinality(files) = 5
    /\ CallsReturns(trace) = ExpectedOrder

\* C4: when one of the three environment variables is unset or empty, main
\* raises RuntimeError naming a variable that is missing, and nothing else
\* has happened: no API request, no extraction method, no file, no log line.
C4_ConfigFailFast ==
    ((\E v \in Range(ENV_VARS) : env[v] \in {None, ""}) /\ pc # "main") =>
        /\ pc = "raised"
        /\ err.type = "RuntimeError"
        /\ err.arg \in Range(ENV_VARS)
        /\ env[err.arg] \in {None, ""}
        /\ calls = <<>>
        /\ trace = <<>>
        /\ files = {}
        /\ log = <<>>

C4_Witness ==
    /\ pc = "raised"
    /\ env[ENV_VARS[1]] = "x"
    /\ env[ENV_VARS[2]] = ""
    /\ env[ENV_VARS[3]] = None
    /\ err = [type |-> "RuntimeError", arg |-> ENV_VARS[2]]

\* C5: when the construction of the collector raises, main has logged the
\* error and returned without raising; no extraction method was called and
\* no file written.
C5_AuthFailure ==
    err.type = "AuthError" =>
        /\ pc = "auth_failed"
        /\ trace = <<>>
        /\ files = {}
        /\ log = <<Error("Authentication failed: %s", err.arg)>>
        /\ \A i \in 1..Len(calls) : calls[i].op = "current_user"

C5_Witness ==
    /\ pc = "auth_failed"
    /\ err = [type |-> "AuthError", arg |-> "current_user"]
    /\ Len(calls) = 1
    /\ calls[1].raised

\* the IDs of the saved-track records that have a non-empty ID and are not local
NonLocalIds(saved) ==
    LET kept == SelectSeq(saved, LAMBDA r : r.track_id \notin {None, ""} /\ r.is_local = JFalse)
    IN [i \in 1..Len(kept) |-> kept[i].track_id]

\* C7: every ID sent in an audio_features request is the non-null, non-empty
\* track_id of a saved-track record that is not local; the IDs sent are, in
\* order, those of the records that have such an ID and are not local, so a
\* record with a null or empty ID or with is_local true contributes none.
C7_OnlyNonLocalIds ==
    LET sent == Flatten([i \in 1..Len(calls) |->
                    IF calls[i].op = "audio_features" THEN calls[i].req ELSE <<>>])
    IN /\ \A k \in 1..Len(sent) :
             /\ sent[k] \notin {None, ""}
             /\ \E i \in 1..Len(saved_tracks) :
                   saved_tracks[i].track_id = sent[k] /\ saved_tracks[i].is_local = JFalse
       /\ (sent # <<>> => IsPrefix(sent, NonLocalIds(saved_tracks)))

C7_Witness ==
    /\ pc = "audio_loop"
    /\ Len(calls) = 1
    /\ calls[1].req = <<"t1">>
    /\ Len(saved_tracks) = 2
    /\ saved_tracks[1].track_id = "t3"
    /\ saved_tracks[1].is_local = JTrue

\* C8: an extraction method that returns has written exactly one file,
\* unless it is collect_first_playlist_tracks given no playlist or
\* collect_audio_features_for_tracks given no non-empty ID: these return at
\* once (None and the empty list), without a request, a file or an exception.
C8_OneSnapshotPerMethod ==
    [][ LET early3 == pc = "plitems" /\ playlists = <<>>
            early4 == pc = "audio" /\ \A i \in 1..Len(track_ids) : track_ids[i] \in {None, ""}
        IN /\ early3 =>
                /\ Last(trace') = Ev("return", "first_playlist_tracks")
                /\ WritesSinceCall(trace') = <<>>
                /\ files' = files
                /\ calls' = <<>>
                /\ ret' = NoRet
                /\ err' = err
                /\ pc' # "raised"
           /\ early4 =>
                /\ Last(trace') = Ev("return", "audio_features")
                /\ WritesSinceCall(trace') = <<>>
                /\ files' = files
                /\ calls' = <<>>
                /\ ret' = Returned(<<>>)
                /\ err' = err
                /\ pc' # "raised"
           /\ (trace' # trace /\ Last(trace').ev = "return" /\ ~early3 /\ ~early4) =>
                /\ Len(WritesSinceCall(trace')) = 1
                /\ WritesSinceCall(trace')[1].what \in files'
                /\ Cardinality(files') <= Cardinality(files) + 1
                /\ ~ret'.isNone
      ]_vars

C8_Witness ==
    /\ pc = "done"
    /\ Cardinality(files) = 3
    /\ \E i \in 1..Len(log) : log[i].msg = "No playlists found; skipping playlist item extraction."
    /\ \E i \in 1..Len(log) : log[i].msg = "No valid track IDs for audio features."

\* C9: when an API request raises in an extraction method, main is left by
\* the exception; the method had been called and has neither written nor
\* returned, every method before it has returned, the files are exactly
\* those the earlier methods wrote, and the failed request is the last
\* request made.
C9_ApiErrorAborts ==
    err.type = "ApiError" =>
        /\ pc = "raised"
        /\ trace # <<>>
        /\ Last(trace).ev = "call"
        /\ IsPrefix(CallsReturns(trace), ExpectedOrder)
        /\ files = {e.what : e \in Range(Writes(trace))}
        /\ Cardinality(files) = Len(Writes(trace))
        /\ Len(Writes(trace)) <= (Len(CallsReturns(trace)) - 1) \div 2
        /\ calls # <<>>
        /\ Last(calls).raised
        /\ Last(calls).op = err.arg
        /\ \A i \in 1..(Len(calls) - 1) : ~calls[i].raised

C9_Witness ==
    /\ pc = "raised"
    /\ err = ApiError("audio_features")
    /\ Cardinality(files) = 3
    /\ Last(trace) = Ev("call", "audio_features")

\* C10: no file is written twice in a run: the names dump_json is given are
\* pairwise distinct, also when all writes fall in one second and whatever
\* the first playlist's ID is; a run that ends normally leaves one file for
\* each method that wrote.
C10_NoOverwrite ==
    /\ \A i, j \in 1..Len(Writes(trace)) :
          i # j => Writes(trace)[i].what # Writes(trace)[j].what
    /\ Cardinality(files) = Len(Writes(trace))

C10_Witness ==
    /\ pc = "done"
    /\ now = 0
    /\ Cardinality(files) = 5
    /\ FileName("playlist_saved_tracks", 0) \in files
    /\ FileName("saved_tracks", 0) \in files
====
